---- MODULE Spec2Model ----
(***************************************************************************)
(* A model of the premium video transform pipeline:                        *)
(*   PremiumVideoEffectDriver     (EffectDriver, EffectConfig)             *)
(*   PremiumVideoStreamHandler    (StreamBridge and its paced loop)        *)
(*   PremiumVideoTransformDevice  (TransformDevice)                        *)
(*                                                                         *)
(* JavaScript runs one task at a time.  A timer callback and a media       *)
(* element event are tasks; the code after an `await` is a continuation.   *)
(* Each action below is one synchronous stretch of code: a whole call up   *)
(* to its first await, or a continuation up to the next one.               *)
(***************************************************************************)
EXTENDS Integers, Sequences

\* ----------------------------------------------------------------- bounds
MaxTimers == 2        \* pending setTimeout handles kept by the model
MaxCaptures == 2      \* canvasOutput.captureStream() calls
MaxPending == 1       \* suspended setInputMediaStream / transformStream calls
MaxSpawned == 1       \* devices made by chooseNewInnerDevice
MaxPixels == 1        \* pixels of a buffer handed to apply (SpecApply)

\* ------------------------------------------------------ program constants
CHANNEL_COUNT == 4
MAX_PIXEL_VAL == 255
\* An HTML canvas element is 300 by 150 until it is sized.
CanvasDefault == [width |-> 300, height |-> 150]

\* ------------------------------------------------- the streams of the run
NoStream == "none"
\* "cam": one video track (640x480) and one audio track;
\* "hd": one video track (1280x720), no audio; "mic": audio only.
Streams == {"cam", "hd", "mic"}
StreamOrNone == Streams \cup {NoStream}

\* A track: its kind, the stream it came with, and (canvas tracks) a serial.
Track(kind, src, n) == [kind |-> kind, src |-> src, n |-> n]
getVideoTracks(s) ==
    CASE s = "cam" -> <<Track("video", "cam", 0)>>
      [] s = "hd" -> <<Track("video", "hd", 0)>>
      [] OTHER -> <<>>
getAudioTracks(s) ==
    CASE s = "cam" -> {Track("audio", "cam", 0)}
      [] s = "mic" -> {Track("audio", "mic", 0)}
      [] OTHER -> {}
getTracks(s) ==
    {getVideoTracks(s)[i] : i \in 1..Len(getVideoTracks(s))} \cup getAudioTracks(s)
\* MediaStreamTrack.getSettings() of a video track
getSettings(t) ==
    IF t.src = "cam" THEN [width |-> 640, height |-> 480]
                     ELSE [width |-> 1280, height |-> 720]
\* The frame a source delivers: one pixel stands for the whole (uniform) frame.
SourcePixel(s) ==
    IF s = "cam" THEN <<10, 20, 30, 255>> ELSE <<200, 100, 50, 255>>
\* The video track canvasOutput.captureStream() puts on its n-th stream.
CanvasTrack(n) == Track("video", "canvas", n)

\* The backing device of a TransformDevice.
Devices == {"physical", "stream", "absent"}
Drivers == {1, 2}

ImageData(data, width, height) == [data |-> data, width |-> width, height |-> height]
NoImage == ImageData(<<>>, 0, 0)

VARIABLES
    \* PremiumVideoEffectConfig, one per PremiumVideoEffectDriver
    config,
    \* PremiumVideoStreamHandler
    lastTimeOut,        \* the field stop() reads
    lastTimeout,        \* the property process assigns
    videoInput,         \* [srcObject, listener, videoWidth, videoHeight, loading]
    canvasInput,        \* [width, height, pixel]
    inputVideoStream,
    canvasOutput,       \* [width, height]
    sink,               \* the ImageData last put on canvasOutput
    outputMediaStream,  \* identity of the MediaStream: 0 is `new MediaStream()`
    outputTracks,       \* the tracks of the object outputMediaStream names
    captures,           \* number of captureStream() calls so far
    ended,              \* tracks whose readyState is "ended"
    timers,             \* pending setTimeout(this.process) handles
    tick,               \* the process call suspended at `await apply`
    \* PremiumVideoTransformDevice
    device, videoEffectDriver, inputMediaStream,
    spawned,            \* the devices chooseNewInnerDevice returned
    lifecycle,          \* "fresh"; "stopped" after stop(); "restarted" by a later transformStream
    \* suspended async calls
    pending,
    last,               \* the last call made on the handler, for the properties
    \* a direct call of apply (SpecApply)
    inputImageData, outputImageData

bridgeVars == <<lastTimeOut, lastTimeout, videoInput, canvasInput, inputVideoStream,
                canvasOutput, sink, outputMediaStream, outputTracks, captures,
                ended, timers, tick>>
deviceVars == <<device, videoEffectDriver, inputMediaStream, spawned, lifecycle>>
applyVars == <<inputImageData, outputImageData>>
vars == <<config, bridgeVars, deviceVars, pending, last, applyVars>>

\* ------------------------------------------------ PremiumVideoEffectDriver
\* Faulty variant: the blue shift lands on channel 1.
transformData_green(currentPixel, idx, cfg) ==
    IF cfg.redShiftEnabled /\ idx % CHANNEL_COUNT = 0 THEN MAX_PIXEL_VAL
    ELSE IF cfg.blueShiftEnabled /\ idx % CHANNEL_COUNT = 1 THEN MAX_PIXEL_VAL
    ELSE currentPixel

transformData(currentPixel, idx, cfg) ==
    IF cfg.redShiftEnabled /\ idx % CHANNEL_COUNT = 0 THEN MAX_PIXEL_VAL
    ELSE IF cfg.blueShiftEnabled /\ idx % CHANNEL_COUNT = 2 THEN MAX_PIXEL_VAL
    ELSE currentPixel

\* Uint8ClampedArray.map: a new array; the callback's idx counts from 0.
apply(image, cfg) ==
    ImageData([i \in 1..Len(image.data) |-> transformData(image.data[i], i - 1, cfg)],
              image.width, image.height)

getEffectConfig(driver) == config[driver]

\* ----------------------------------------------- PremiumVideoStreamHandler
\* tick.stale: the call came from a timer that was pending when stop() ran, or
\* from a timer set by such a call; timers[i].stopped marks those timers.
NoConfig == [blueShiftEnabled |-> FALSE, redShiftEnabled |-> FALSE]
\* tick.cfg: the flag values apply was called under.
IdleTick == [active |-> FALSE, image |-> NoImage, stale |-> FALSE, cfg |-> NoConfig]
IdleVideo == [srcObject |-> NoStream, listener |-> FALSE,
              videoWidth |-> 0, videoHeight |-> 0, loading |-> FALSE]

\* Faulty variant: the output is never taken to be active.
isOutputMediaStreamActive_never(tracks, dead) == FALSE

isOutputMediaStreamActive(tracks, dead) == \E t \in tracks : t \notin dead

\* Faulty variant: the input's audio tracks are added, the old ones not removed.
cloneInputAudioTracksToOutput_keep(tracks, dead, input) ==
    IF ~isOutputMediaStreamActive(tracks, dead) \/ input = NoStream
    THEN tracks
    ELSE tracks \cup getAudioTracks(input)

cloneInputAudioTracksToOutput(tracks, dead, input) ==
    IF ~isOutputMediaStreamActive(tracks, dead) \/ input = NoStream
    THEN tracks
    ELSE {t \in tracks : t.kind # "audio"} \cup getAudioTracks(input)

\* getActiveOutputMediaStream as a function of the handler's fields:
\* the stream it returns, that stream's tracks, and the captures made so far.
getActiveOutputMediaStream(stream, tracks, dead, input, n) ==
    IF isOutputMediaStreamActive(tracks, dead)
    THEN [stream |-> stream, tracks |-> tracks, captures |-> n]
    ELSE [stream |-> n + 1,
          tracks |-> cloneInputAudioTracksToOutput({CanvasTrack(n + 1)}, dead, input),
          captures |-> n + 1]

\* Timer handles.  setTimeout returns a new handle each time; the model numbers
\* the pending timers 1..n in the order they were set and renumbers the handles
\* the handler holds when a timer leaves: Gone is the handle of a timer that
\* is no longer pending, 0 is `undefined`.
Gone == -1
Without(q, i) == [j \in 1..(Len(q) - 1) |-> IF j < i THEN q[j] ELSE q[j + 1]]
Renumber(handle, i) ==
    IF handle = i THEN Gone ELSE IF handle > i THEN handle - 1 ELSE handle
clearTimeout(ts, handle) == IF handle \in 1..Len(ts) THEN Without(ts, handle) ELSE ts

\* Faulty variant of stop(): the stopped tracks are also taken off the output.
stop_removeTracks ==
    /\ videoInput' = IdleVideo
    /\ ended' = ended \cup outputTracks
                  \cup (IF inputVideoStream = NoStream THEN {} ELSE getTracks(inputVideoStream))
    /\ inputVideoStream' = NoStream
    /\ LET left == IF lastTimeOut # 0 THEN clearTimeout(timers, lastTimeOut) ELSE timers
       IN timers' = [i \in 1..Len(left) |-> [left[i] EXCEPT !.stopped = TRUE]]
    /\ lastTimeOut' = 0
    /\ outputTracks' = {}
    /\ UNCHANGED <<lastTimeout, tick, canvasInput, canvasOutput, sink, outputMediaStream,
                   captures>>

\* stop(): the handler's own fields.
stop ==
    /\ videoInput' = IdleVideo
    /\ ended' = ended \cup outputTracks
                  \cup (IF inputVideoStream = NoStream THEN {} ELSE getTracks(inputVideoStream))
    /\ inputVideoStream' = NoStream
    /\ LET left == IF lastTimeOut # 0 THEN clearTimeout(timers, lastTimeOut) ELSE timers
       IN timers' = [i \in 1..Len(left) |-> [left[i] EXCEPT !.stopped = TRUE]]
    /\ lastTimeOut' = 0
    /\ UNCHANGED <<lastTimeout, tick, canvasInput, canvasOutput, sink, outputMediaStream,
                   outputTracks, captures>>

\* Faulty variant of processBegin: no `if (!this.inputVideoStream) return`.
processBegin_noGuard(video, stopped) ==
    LET drawn == IF video.videoWidth # 0
                 THEN [width |-> video.videoWidth, height |-> video.videoHeight,
                       pixel |-> SourcePixel(video.srcObject)]
                 ELSE canvasInput
        inputImage == ImageData(drawn.pixel, drawn.width, drawn.height)
    IN /\ canvasInput' = drawn
       /\ tick' = [active |-> TRUE, stale |-> stopped, cfg |-> config[videoEffectDriver],
                   image |-> apply(inputImage, config[videoEffectDriver])]

\* The synchronous part of process, up to `await this.videoEffectDriver.apply(..)`:
\* apply has no await of its own, so the transform is computed before process suspends.
processBegin(video, stopped) ==
    IF inputVideoStream = NoStream
    THEN UNCHANGED <<canvasInput, tick>>
    ELSE LET drawn == IF video.videoWidth # 0
                      THEN [width |-> video.videoWidth, height |-> video.videoHeight,
                            pixel |-> SourcePixel(video.srcObject)]
                      ELSE canvasInput
             inputImage == ImageData(drawn.pixel, drawn.width, drawn.height)
         IN /\ canvasInput' = drawn
            /\ tick' = [active |-> TRUE, stale |-> stopped, cfg |-> config[videoEffectDriver],
                        image |-> apply(inputImage, config[videoEffectDriver])]

\* Faulty variant of processResume: the captured frame is transformed only now,
\* under the flags of this moment.
processResume_lateApply ==
    /\ tick.active
    /\ canvasOutput' =
         IF /\ canvasOutput.width # videoInput.videoWidth
            /\ canvasOutput.height # videoInput.videoHeight
         THEN [width |-> videoInput.videoWidth, height |-> videoInput.videoHeight]
         ELSE canvasOutput
    /\ sink' = apply(ImageData(canvasInput.pixel, canvasInput.width, canvasInput.height),
                     config[videoEffectDriver])
    /\ timers' = Append(timers, [stopped |-> tick.stale])
    /\ lastTimeout' = Len(timers) + 1
    /\ tick' = IdleTick
    /\ UNCHANGED <<lastTimeOut, videoInput, canvasInput, inputVideoStream,
                   outputMediaStream, outputTracks, captures, ended>>

\* Faulty variant of processResume: the frame is written, no timer is set.
processResume_noTimer ==
    /\ tick.active
    /\ canvasOutput' =
         IF /\ canvasOutput.width # videoInput.videoWidth
            /\ canvasOutput.height # videoInput.videoHeight
         THEN [width |-> videoInput.videoWidth, height |-> videoInput.videoHeight]
         ELSE canvasOutput
    /\ sink' = tick.image
    /\ tick' = IdleTick
    /\ UNCHANGED <<lastTimeOut, lastTimeout, timers, videoInput, canvasInput,
                   inputVideoStream, outputMediaStream, outputTracks, captures, ended>>

\* The rest of process, after the await: size check, putImageData, setTimeout.
\* The handle goes to `lastTimeout` (lower-case o), not to the field stop() reads.
processResume ==
    /\ tick.active
    /\ canvasOutput' =
         IF /\ canvasOutput.width # videoInput.videoWidth
            /\ canvasOutput.height # videoInput.videoHeight
         THEN [width |-> videoInput.videoWidth, height |-> videoInput.videoHeight]
         ELSE canvasOutput
    /\ sink' = tick.image
    /\ timers' = Append(timers, [stopped |-> tick.stale])
    /\ lastTimeout' = Len(timers) + 1
    /\ tick' = IdleTick
    /\ UNCHANGED <<lastTimeOut, videoInput, canvasInput, inputVideoStream,
                   outputMediaStream, outputTracks, captures, ended>>

\* setInputMediaStream up to `await this.videoInput.play()`; `call` names the
\* caller whose continuation waits ("setInput" or "transformStream").
\* Faulty variant: the check for video tracks is left out.
NoVideoTracks_never(s) == FALSE

NoVideoTracks(s) == Len(getVideoTracks(s)) = 0

Suspend(call, s, play) == Append(pending, [call |-> call, stream |-> s, play |-> play])

setInputMediaStream(s, call) ==
    IF s = NoStream
    THEN /\ stop
         /\ pending' = IF call = "transformStream" THEN Suspend(call, s, FALSE) ELSE pending
         /\ last' = "stop"
    ELSE IF NoVideoTracks(s)
    THEN \* logger.error, return
         /\ UNCHANGED bridgeVars
         /\ pending' = IF call = "transformStream" THEN Suspend(call, s, FALSE) ELSE pending
         /\ last' = "ignored"
    ELSE IF Len(getVideoTracks(s)) = 0
    THEN \* getVideoTracks()[0] is undefined: startVideoOnMediaStream throws
         /\ inputVideoStream' = s
         /\ last' = "threw"
         /\ UNCHANGED <<lastTimeOut, lastTimeout, videoInput, canvasInput, canvasOutput,
                        sink, outputMediaStream, outputTracks, captures, ended, timers,
                        tick, pending>>
    ELSE /\ inputVideoStream' = s
         /\ canvasOutput' = getSettings(getVideoTracks(s)[1])
         /\ videoInput' = [srcObject |-> s, listener |-> TRUE,
                           videoWidth |-> 0, videoHeight |-> 0, loading |-> TRUE]
         /\ pending' = Suspend(call, s, TRUE)
         /\ last' = "bound"
         /\ UNCHANGED <<lastTimeOut, lastTimeout, canvasInput, sink, outputMediaStream,
                        outputTracks, captures, ended, timers, tick>>

\* ------------------------------------------------------------------ steps
\* process resumes from `await apply(..)` in a microtask of the task that called
\* it (apply has already returned), before any other task or call runs.
NoTick == ~tick.active

InitCommon ==
    /\ config = [d \in Drivers |-> NoConfig]
    /\ lastTimeOut = 0
    /\ lastTimeout = 0
    /\ videoInput = IdleVideo
    /\ canvasInput = [width |-> CanvasDefault.width, height |-> CanvasDefault.height,
                      pixel |-> <<0, 0, 0, 0>>]
    /\ inputVideoStream = NoStream
    /\ canvasOutput = CanvasDefault
    /\ sink = NoImage
    /\ outputMediaStream = 0
    /\ outputTracks = {}
    /\ captures = 0
    /\ ended = {}
    /\ timers = <<>>
    /\ tick = IdleTick
    /\ videoEffectDriver = 1
    /\ inputMediaStream = NoStream
    /\ spawned = <<>>
    /\ lifecycle = "fresh"
    /\ pending = <<>>
    /\ last = "new"
    /\ outputImageData = NoImage

Init == InitCommon /\ device = "physical" /\ inputImageData = NoImage

\* StreamBridge.setInput(s), called on the handler itself.
SetInput(s) ==
    /\ NoTick
    /\ Len(pending) < MaxPending \/ s = NoStream \/ NoVideoTracks(s)
    /\ setInputMediaStream(s, "setInput")
    /\ UNCHANGED <<config, deviceVars, applyVars>>

\* StreamBridge.stop(), called on the handler itself.
Stop ==
    /\ NoTick
    /\ stop
    /\ last' = "stop"
    /\ UNCHANGED <<config, deviceVars, pending, applyVars>>

\* StreamBridge.getActiveOutput(), called on the handler itself.
GetActiveOutput ==
    LET r == getActiveOutputMediaStream(outputMediaStream, outputTracks, ended,
                                        inputVideoStream, captures)
    IN /\ NoTick
       /\ r.captures <= MaxCaptures
       /\ outputMediaStream' = r.stream
       /\ outputTracks' = r.tracks
       /\ captures' = r.captures
       /\ last' = IF last \in {"get", "again"} THEN "again" ELSE "get"
       /\ UNCHANGED <<config, lastTimeOut, lastTimeout, videoInput, canvasInput,
                      inputVideoStream, canvasOutput, sink, ended, timers, tick,
                      deviceVars, pending, applyVars>>

\* The media element has the source's metadata: 'loadedmetadata' is dispatched,
\* and the listener setInputMediaStream added calls process.  A task: it waits
\* for a suspended process to finish.
LoadedMetadata ==
    /\ videoInput.loading
    /\ NoTick
    /\ getVideoTracks(videoInput.srcObject)[1] \notin ended
    /\ Len(timers) < MaxTimers
    /\ LET size == getSettings(getVideoTracks(videoInput.srcObject)[1])
           video == [videoInput EXCEPT !.loading = FALSE, !.videoWidth = size.width,
                                       !.videoHeight = size.height]
       IN /\ videoInput' = video
          /\ IF video.listener THEN processBegin(video, FALSE)
                               ELSE UNCHANGED <<canvasInput, tick>>
    /\ UNCHANGED <<config, last, lastTimeOut, lastTimeout, inputVideoStream, canvasOutput, sink,
                   outputMediaStream, outputTracks, captures, ended, timers,
                   deviceVars, pending, applyVars>>

\* A timer set by process fires and calls process.  A task, like LoadedMetadata.
TimerFires(i) ==
    /\ i \in 1..Len(timers)
    /\ NoTick
    /\ timers' = Without(timers, i)
    /\ lastTimeOut' = Renumber(lastTimeOut, i)
    /\ lastTimeout' = Renumber(lastTimeout, i)
    /\ processBegin(videoInput, timers[i].stopped)
    /\ UNCHANGED <<config, last, videoInput, inputVideoStream,
                   canvasOutput, sink, outputMediaStream, outputTracks, captures, ended,
                   deviceVars, pending, applyVars>>

\* The suspended process resumes.
TickResumes ==
    /\ processResume
    /\ UNCHANGED <<config, last, deviceVars, pending, applyVars>>

\* A suspended setInputMediaStream resumes after `await play()` (resolved, or
\* rejected and caught): cloneInputAudioTracksToOutput.
SetInputResumes(i) ==
    /\ NoTick
    /\ pending[i].call = "setInput"
    /\ outputTracks' = cloneInputAudioTracksToOutput(outputTracks, ended, inputVideoStream)
    /\ pending' = Without(pending, i)
    /\ UNCHANGED <<config, last, lastTimeOut, lastTimeout, videoInput, canvasInput,
                   inputVideoStream, canvasOutput, sink, outputMediaStream, captures,
                   ended, timers, tick, deviceVars, applyVars>>

\* ------------------------------------------ PremiumVideoTransformDevice
\* transformStream(s) up to its await: the synchronous part of setInputMediaStream.
TransformStream(s) ==
    /\ NoTick
    /\ Len(pending) < MaxPending
    /\ setInputMediaStream(s, "transformStream")
    /\ lifecycle' = IF lifecycle = "fresh" THEN "fresh" ELSE "restarted"
    /\ UNCHANGED <<config, device, videoEffectDriver, inputMediaStream, spawned, applyVars>>

\* transformStream resumes: the rest of setInputMediaStream if it was suspended,
\* then `this.inputMediaStream = mediaStream` and getActiveOutputMediaStream().
TransformStreamResumes(i) ==
    /\ NoTick
    /\ pending[i].call = "transformStream"
    /\ LET cloned == IF pending[i].play
                     THEN cloneInputAudioTracksToOutput(outputTracks, ended, inputVideoStream)
                     ELSE outputTracks
           r == getActiveOutputMediaStream(outputMediaStream, cloned, ended,
                                           inputVideoStream, captures)
       IN /\ r.captures <= MaxCaptures
          /\ inputMediaStream' = pending[i].stream
          /\ outputMediaStream' = r.stream
          /\ outputTracks' = r.tracks
          /\ captures' = r.captures
       /\ pending' = Without(pending, i)
    /\ last' = IF ~pending[i].play /\ last \in {"get", "again"} THEN "again" ELSE "get"
    /\ UNCHANGED <<config, lastTimeOut, lastTimeout, videoInput, canvasInput,
                   inputVideoStream, canvasOutput, sink, ended, timers, tick,
                   device, videoEffectDriver, spawned, lifecycle, applyVars>>

\* Faulty variant: every track of the stream, audio included.
videoTracksOf_all(s) == IF s = NoStream THEN {} ELSE getTracks(s)

\* this.inputMediaStream.getVideoTracks(), guarded by `if (this.inputMediaStream)`
videoTracksOf(s) ==
    IF s = NoStream THEN {} ELSE {getVideoTracks(s)[i] : i \in 1..Len(getVideoTracks(s))}

\* TransformDevice.stop()
DeviceStop ==
    /\ NoTick
    /\ ended' = ended \cup videoTracksOf(inputMediaStream)
    /\ inputMediaStream' = NoStream
    /\ lifecycle' = "stopped"
    /\ UNCHANGED <<last, config, lastTimeOut, lastTimeout, videoInput, canvasInput,
                   inputVideoStream, canvasOutput, sink, outputMediaStream, outputTracks,
                   captures, timers, tick, device, videoEffectDriver, spawned,
                   pending, applyVars>>

\* Faulty variant: the test is negated.
deviceIsMediaStream_negated(d) == d # "stream"

\* this.device && (this.device as MediaStream).id
deviceIsMediaStream(d) == d = "stream"

OnOutputStreamDisconnect ==
    /\ NoTick
    /\ ended' = IF ~deviceIsMediaStream(device)
                 THEN ended \cup videoTracksOf(inputMediaStream)
                 ELSE ended
    /\ UNCHANGED <<last, config, lastTimeOut, lastTimeout, videoInput, canvasInput,
                   inputVideoStream, canvasOutput, sink, outputMediaStream, outputTracks,
                   captures, timers, tick, deviceVars, pending, applyVars>>

\* Faulty variant of chooseNewInnerDevice: the new device gets a driver of its own.
ChooseNewInnerDevice_ownDriver(newDevice) ==
    /\ NoTick
    /\ Len(spawned) < MaxSpawned
    /\ spawned' = Append(spawned, [device |-> newDevice,
                                   videoEffectDriver |-> 2,
                                   inputMediaStream |-> NoStream])
    /\ UNCHANGED <<last, config, bridgeVars, device, videoEffectDriver, inputMediaStream,
                   lifecycle, pending, applyVars>>

\* new PremiumVideoTransformDevice(this.logger, newDevice, this.videoEffectDriver):
\* the new instance has its own handler and no recorded input.
ChooseNewInnerDevice(newDevice) ==
    /\ NoTick
    /\ Len(spawned) < MaxSpawned
    /\ spawned' = Append(spawned, [device |-> newDevice,
                                   videoEffectDriver |-> videoEffectDriver,
                                   inputMediaStream |-> NoStream])
    /\ UNCHANGED <<last, config, bridgeVars, device, videoEffectDriver, inputMediaStream,
                   lifecycle, pending, applyVars>>

\* The driver each TransformDevice of the run holds: 0 is the first device.
DriverOf(k) == IF k = 0 THEN videoEffectDriver ELSE spawned[k].videoEffectDriver

\* setBlueShiftState / setRedShiftState on the driver of device k.
SetBlueShiftState(k, enabled) ==
    /\ NoTick
    /\ config' = [config EXCEPT ![DriverOf(k)].blueShiftEnabled = enabled]
    /\ UNCHANGED <<last, bridgeVars, deviceVars, pending, applyVars>>

SetRedShiftState(k, enabled) ==
    /\ NoTick
    /\ config' = [config EXCEPT ![DriverOf(k)].redShiftEnabled = enabled]
    /\ UNCHANGED <<last, bridgeVars, deviceVars, pending, applyVars>>

\* A setter called while process is suspended at `await apply(..)`.  apply
\* returns a settled promise, so only a caller that runs in a microtask queued
\* ahead of the continuation of process gets in here.
SetBlueShiftStateInFlight(enabled) ==
    /\ tick.active
    /\ config' = [config EXCEPT ![videoEffectDriver].blueShiftEnabled = enabled]
    /\ UNCHANGED <<last, bridgeVars, deviceVars, pending, applyVars>>

SetRedShiftStateInFlight(enabled) ==
    /\ tick.active
    /\ config' = [config EXCEPT ![videoEffectDriver].redShiftEnabled = enabled]
    /\ UNCHANGED <<last, bridgeVars, deviceVars, pending, applyVars>>

\* The handler driven directly: setInput, stop, getActiveOutput, and the tasks
\* and continuations they leave behind.
Next ==
    \/ \E s \in StreamOrNone : SetInput(s)
    \/ Stop
    \/ GetActiveOutput
    \/ \E i \in 1..Len(pending) : SetInputResumes(i)
    \/ LoadedMetadata
    \/ \E i \in 1..Len(timers) : TimerFires(i)
    \/ TickResumes

Spec == Init /\ [][Next]_vars

\* The device driven through its own interface: transformStream, stop and
\* onOutputStreamDisconnect, with the tasks and continuations they leave behind.
InitDevice == InitCommon /\ device \in Devices /\ inputImageData = NoImage

NextDevice ==
    \/ \E s \in StreamOrNone : TransformStream(s)
    \/ \E i \in 1..Len(pending) : TransformStreamResumes(i)
    \/ LoadedMetadata
    \/ \E i \in 1..Len(timers) : TimerFires(i)
    \/ TickResumes
    \/ DeviceStop
    \/ OnOutputStreamDisconnect

SpecDevice == InitDevice /\ [][NextDevice]_vars

\* The output of a running device is disconnected, for each kind of backing device.
NextDisconnect ==
    \/ \E s \in {"cam", "mic"} : TransformStream(s)
    \/ \E i \in 1..Len(pending) : TransformStreamResumes(i)
    \/ LoadedMetadata
    \/ \E i \in 1..Len(timers) : TimerFires(i)
    \/ TickResumes
    \/ OnOutputStreamDisconnect

SpecDisconnect == InitDevice /\ [][NextDisconnect]_vars

\* The two teardown paths, stop() of the device and stop() of its handler, taken
\* in any order and any number of times around a transformStream.
NextTeardown ==
    \/ \E s \in {"cam", NoStream} : TransformStream(s)
    \/ \E i \in 1..Len(pending) : TransformStreamResumes(i)
    \/ LoadedMetadata
    \/ \E i \in 1..Len(timers) : TimerFires(i)
    \/ TickResumes
    \/ DeviceStop
    \/ Stop

SpecTeardown == InitDevice /\ [][NextTeardown]_vars

\* A device with a running pipeline whose flags are set and whose backing device
\* is swapped: transformStream, the setters on any device of the run, and
\* chooseNewInnerDevice.
NextSwap ==
    \/ \E s \in {"cam", "hd"} : TransformStream(s)
    \/ \E i \in 1..Len(pending) : TransformStreamResumes(i)
    \/ LoadedMetadata
    \/ \E i \in 1..Len(timers) : TimerFires(i)
    \/ TickResumes
    \/ \E d \in Devices : ChooseNewInnerDevice(d)
    \/ \E k \in 0..Len(spawned), b \in BOOLEAN : SetBlueShiftState(k, b)
    \/ \E k \in 0..Len(spawned), b \in BOOLEAN : SetRedShiftState(k, b)

SpecSwap == Init /\ [][NextSwap]_vars

\* The source changes its frame size while it plays (a camera that is
\* reconfigured, a shared window that is resized): the media element's
\* videoWidth and videoHeight, which process reads on every tick, follow it.
FrameSizes == {[width |-> 640, height |-> 480], [width |-> 640, height |-> 360],
               [width |-> 1280, height |-> 720]}

VideoResizes(size) ==
    /\ NoTick
    /\ videoInput.srcObject # NoStream /\ ~videoInput.loading
    /\ videoInput' = [videoInput EXCEPT !.videoWidth = size.width,
                                         !.videoHeight = size.height]
    /\ UNCHANGED <<config, last, lastTimeOut, lastTimeout, canvasInput, inputVideoStream,
                   canvasOutput, sink, outputMediaStream, outputTracks, captures, ended,
                   timers, tick, deviceVars, pending, applyVars>>

\* The loop on a source whose frame size changes.
NextResize ==
    \/ \E s \in {"cam", "hd"} : SetInput(s)
    \/ \E i \in 1..Len(pending) : SetInputResumes(i)
    \/ LoadedMetadata
    \/ \E i \in 1..Len(timers) : TimerFires(i)
    \/ TickResumes
    \/ \E size \in FrameSizes : VideoResizes(size)

SpecResize == Init /\ [][NextResize]_vars

\* The loop left to run: streams are bound and replaced, nothing is unbound.
\* The browser fires a pending timer, and resumes a process whose awaited
\* promise is settled, in finite time.
NextLoop ==
    \/ \E s \in {"cam", "hd"} : SetInput(s)
    \/ GetActiveOutput
    \/ \E i \in 1..Len(pending) : SetInputResumes(i)
    \/ LoadedMetadata
    \/ \E i \in 1..Len(timers) : TimerFires(i)
    \/ TickResumes

SpecLoop ==
    /\ Init /\ [][NextLoop]_vars
    /\ WF_vars(\E i \in 1..Len(timers) : TimerFires(i))
    /\ WF_vars(TickResumes)

\* The loop with the flags set at any moment, between ticks and within one.
NextFlags ==
    \/ \E s \in {"cam", "hd"} : SetInput(s)
    \/ \E i \in 1..Len(pending) : SetInputResumes(i)
    \/ LoadedMetadata
    \/ \E i \in 1..Len(timers) : TimerFires(i)
    \/ TickResumes
    \/ \E b \in BOOLEAN : SetBlueShiftState(0, b)
    \/ \E b \in BOOLEAN : SetRedShiftState(0, b)
    \/ \E b \in BOOLEAN : SetBlueShiftStateInFlight(b)
    \/ \E b \in BOOLEAN : SetRedShiftStateInFlight(b)

SpecFlags == Init /\ [][NextFlags]_vars

\* apply called on buffers of every content, under every setting of the flags.
ByteVals == {0, 100, MAX_PIXEL_VAL}
Buffers ==
    UNION {{ImageData(d, n, 1) : d \in [1..(CHANNEL_COUNT * n) -> ByteVals]} : n \in 1..MaxPixels}

InitApply == InitCommon /\ device = "physical" /\ inputImageData \in Buffers

\* const out = await driver.apply(inputImageData)
Apply ==
    /\ NoTick
    /\ outputImageData' = apply(inputImageData, getEffectConfig(videoEffectDriver))
    /\ UNCHANGED <<config, bridgeVars, deviceVars, pending, last, inputImageData>>

NextApply ==
    \/ Apply
    \/ \E b \in BOOLEAN : SetBlueShiftState(0, b)
    \/ \E b \in BOOLEAN : SetRedShiftState(0, b)

SpecApply == InitApply /\ [][NextApply]_vars

\* ----------------------------------------------------------- properties
outputActive == isOutputMediaStreamActive(outputTracks, ended)
audioOf(tracks) == {t \in tracks : t.kind = "audio"}
Unstopped(ts) == SelectSeq(ts, LAMBDA t : ~t.stopped)

\* C1: over setInput calls alone (no stop() has touched the chain), at most one
\* tick chain is alive: at most one tick executing or scheduled.
C1_OneTickChain ==
    Len(Unstopped(timers)) + (IF tick.active /\ ~tick.stale THEN 1 ELSE 0) <= 1

\* C2: from a moment when the input is unbound (stop() has returned) and no tick
\* is executing, and for as long as no setInput binds a stream, no tick gets past
\* the guard of process and the sink surface is not written or resized.
C2_NoWriteAfterStop ==
    [][(inputVideoStream = NoStream /\ ~tick.active /\ inputVideoStream' = NoStream)
        => (sink' = sink /\ canvasOutput' = canvasOutput /\ ~tick'.active)]_vars

\* C2 witness: stop() was the last call, frames had been written, and the timer
\* the loop set last has fired since without starting a tick.
C2_Witness ==
    /\ last = "stop" /\ inputVideoStream = NoStream /\ ~tick.active
    /\ sink # NoImage /\ lastTimeout = Gone /\ Len(timers) = 0

\* C3: when stop() returns, no scheduled tick is pending.
C3_StopCancelsTimer == [][stop => Len(timers') = 0]_vars

\* C4: no tick that gets past the guard of process was started by a timer that
\* was pending when stop() ran.
C4_NoStaleTick == ~(tick.active /\ tick.stale)

\* C5: the object outputMediaStream names never changes.
C5_OutputIdentity == [][outputMediaStream' = outputMediaStream]_vars

\* C6 as stated: once a getActiveOutput call has completed (it is the last call
\* made), an active output with a bound input carries the input's audio tracks.
C6_AudioAfterCall ==
    (last \in {"get", "again"} /\ outputActive /\ inputVideoStream # NoStream)
        => audioOf(outputTracks) = getAudioTracks(inputVideoStream)

\* C6 amended: when no setInput call is still suspended, an active output with a
\* bound input carries exactly the audio tracks of that input.
C6_AudioSynced ==
    (Len(pending) = 0 /\ outputActive /\ inputVideoStream # NoStream)
        => audioOf(outputTracks) = getAudioTracks(inputVideoStream)

\* C6 witness: the output went active after "cam" was bound and carries its audio.
C6_Witness ==
    /\ Len(pending) = 0 /\ outputActive /\ inputVideoStream = "cam"
    /\ last = "get" /\ audioOf(outputTracks) = getAudioTracks("cam")

\* C7: a getActiveOutput call that directly follows another one returns the
\* same handle, makes no capture and leaves the handle's tracks alone.
C7_GetActiveIdempotent ==
    [][(last = "get" /\ last' = "again")
        => (outputMediaStream' = outputMediaStream /\ captures' = captures
            /\ outputTracks' = outputTracks)]_vars

\* C7 witness: getActiveOutput was called twice in a row.
C7_Witness == last = "again" /\ outputActive

\* C8: setInput with a stream that has no video track changes nothing and ends
\* without an error.
C8_NoVideoIgnored ==
    [][\A s \in Streams :
          (Len(getVideoTracks(s)) = 0 /\ SetInput(s))
              => (last' = "ignored" /\ UNCHANGED <<config, bridgeVars, deviceVars, pending>>)]_vars

\* C8 witness: a stream was ignored while "cam" was bound and its loop running.
C8_Witness ==
    /\ last = "ignored" /\ inputVideoStream = "cam" /\ Len(timers) > 0
    /\ getTracks("mic") \cap ended = {}

\* C9: apply returns a buffer of the input's width, height and length whose byte
\* at idx is 255 where a shift that is enabled owns the channel (red: idx % 4 = 0,
\* blue: idx % 4 = 2) and the input's byte elsewhere; with both flags off it is
\* the input, and the input buffer is left as it was.
C9_ApplyShifts ==
    [][Apply =>
        LET in == inputImageData
            out == outputImageData'
            cfg == getEffectConfig(videoEffectDriver)
        IN /\ out.width = in.width /\ out.height = in.height
           /\ Len(out.data) = Len(in.data)
           /\ \A i \in 1..Len(in.data) :
                LET idx == i - 1
                IN /\ (cfg.redShiftEnabled /\ idx % 4 = 0) => out.data[i] = 255
                   /\ (cfg.blueShiftEnabled /\ idx % 4 = 2) => out.data[i] = 255
                   /\ ~(cfg.redShiftEnabled /\ idx % 4 = 0)
                        /\ ~(cfg.blueShiftEnabled /\ idx % 4 = 2) => out.data[i] = in.data[i]
           /\ (~cfg.redShiftEnabled /\ ~cfg.blueShiftEnabled) => out = in
           /\ inputImageData' = in]_vars

\* C9 witness: apply has returned a buffer with both channels raised from 0 and
\* the other two bytes as they were.
C9_Witness ==
    /\ outputImageData # NoImage
    /\ inputImageData.data[1] = 0 /\ outputImageData.data[1] = 255
    /\ inputImageData.data[3] = 0 /\ outputImageData.data[3] = 255
    /\ inputImageData.data[2] = 100 /\ outputImageData.data[2] = 100
    /\ inputImageData.data[4] = 100 /\ outputImageData.data[4] = 100

\* C10: chooseNewInnerDevice(d) leaves the old instance (recorded input, handler,
\* loop, backing device) and the flags as they were; the new instance is bound to
\* d, has no recorded input and holds the old one's driver, so at every moment
\* every device of the run reads the same flag values.
C10_SharedDriver ==
    [][/\ \A d \in Devices : ChooseNewInnerDevice(d) =>
            /\ UNCHANGED <<config, bridgeVars, device, videoEffectDriver,
                           inputMediaStream, pending>>
            /\ spawned'[Len(spawned')].device = d
            /\ spawned'[Len(spawned')].inputMediaStream = NoStream
            /\ spawned'[Len(spawned')].videoEffectDriver = videoEffectDriver
       /\ \A k \in 1..Len(spawned') :
            config'[spawned'[k].videoEffectDriver] = config'[videoEffectDriver']]_vars

\* C10 witness: a device was swapped out while its loop ran on a recorded input,
\* and the red shift is on.
C10_Witness ==
    /\ Len(spawned) = 1 /\ spawned[1].device # device
    /\ inputMediaStream = "cam" /\ inputVideoStream = "cam" /\ Len(timers) > 0
    /\ getEffectConfig(DriverOf(1)).redShiftEnabled
    /\ getVideoTracks("cam")[1] \notin ended

\* C11: onOutputStreamDisconnect ends the video tracks of the recorded input
\* when the backing device is a physical device or absent, and ends no track
\* when it is a stream handle; either way it ends no audio track, keeps the
\* recorded input and leaves the handler (binding, timers, tick) alone.
C11_DisconnectReleases ==
    [][OnOutputStreamDisconnect =>
        /\ device \in {"physical", "absent"} =>
              ended' = ended \cup {t \in getTracks(inputMediaStream) : t.kind = "video"}
        /\ device = "stream" => ended' = ended
        /\ audioOf(ended') = audioOf(ended)
        /\ inputMediaStream' = inputMediaStream
        /\ UNCHANGED <<inputVideoStream, videoInput, timers, tick, lastTimeOut, lastTimeout>>]_vars

\* C11 witness: with no backing device, the disconnect has ended the video track
\* of the recorded "cam" and not its audio track, and the loop goes on.
C11_Witness ==
    /\ device = "absent" /\ lifecycle = "fresh" /\ last # "stop"
    /\ inputMediaStream = "cam" /\ inputVideoStream = "cam"
    /\ getVideoTracks("cam")[1] \in ended
    /\ getAudioTracks("cam") \cap ended = {}
    /\ Len(timers) > 0

\* C12: once stop() has been called on the device, no later step binds an input
\* stream to its handler or arms the media element for a new tick chain.
C12_StoppedTerminal ==
    [][lifecycle # "fresh" =>
        /\ inputVideoStream' \in {inputVideoStream, NoStream}
        /\ videoInput'.loading => videoInput.loading]_vars

\* C13: stop() on the device ends the video tracks of the recorded input and
\* clears the record, ends no audio track and touches nothing of the handler;
\* with nothing recorded (never a stream, or a stop() before) it changes
\* nothing; it can be taken in every state, before or after the handler's stop().
C13_DeviceStopSafe ==
    /\ [][DeviceStop =>
        /\ ended' = ended \cup {t \in getTracks(inputMediaStream) : t.kind = "video"}
        /\ audioOf(ended') = audioOf(ended)
        /\ inputMediaStream' = NoStream
        /\ inputMediaStream = NoStream => ended' = ended
        /\ UNCHANGED <<lastTimeOut, lastTimeout, videoInput, canvasInput, inputVideoStream,
                       canvasOutput, sink, outputMediaStream, outputTracks, captures,
                       timers, tick>>]_vars
    /\ [](NoTick => ENABLED DeviceStop)

\* C13 witness: stop() has ended the video track of the recorded "cam" of a
\* device backed by a stream handle, not its audio track, and the handler still
\* has "cam" bound.
C13_Witness ==
    /\ device = "stream" /\ lifecycle = "stopped" /\ inputMediaStream = NoStream
    /\ getVideoTracks("cam")[1] \in ended
    /\ getAudioTracks("cam") \cap ended = {}
    /\ inputVideoStream = "cam" /\ Len(timers) > 0

C15_OneVideoTrackSized ==
    [][(\E i \in 1..Len(pending) : TransformStreamResumes(i)) =>
        /\ isOutputMediaStreamActive(outputTracks', ended')
        /\ {t \in outputTracks' : t.kind = "video"} = {CanvasTrack(outputMediaStream')}
        /\ canvasOutput' = getSettings(getVideoTracks(inputVideoStream')[1])]_vars

\* C16: when a tick writes its frame, the output canvas has the width and the
\* height of the source's frame (the media element's videoWidth, videoHeight).
C16_SinkMatchesSource ==
    [][TickResumes =>
        /\ canvasOutput'.width = videoInput.videoWidth
        /\ canvasOutput'.height = videoInput.videoHeight]_vars

\* C17: with no stop() and no setInput(null), a tick that completes sets exactly
\* one timer, a timer that fires starts a tick that gets past the guard, and
\* once a tick is scheduled or executing one stays so for ever (the chain never
\* ends), and then ticks write the sink again and again without end.
C17_LoopRunsOn ==
    /\ [][TickResumes => Len(timers') = Len(timers) + 1]_vars
    /\ [][(\E i \in 1..Len(timers) : TimerFires(i)) => tick'.active]_vars
    /\ [][(Len(timers) > 0 \/ tick.active) => (Len(timers') > 0 \/ tick'.active)]_vars
    /\ \/ []<>(Len(timers) = 0 /\ ~tick.active)
       \/ []<><<TickResumes>>_vars

\* C17 witness: a tick started by a timer of the loop is executing, after
\* earlier ticks have written the sink.
C17_Witness ==
    /\ inputVideoStream # NoStream /\ sink # NoImage
    /\ lastTimeout = Gone /\ tick.active /\ ~tick.stale

\* C18: the frame a tick writes is the captured frame with every byte
\* transformed under the flag values apply was called with, whatever the
\* setters did while the tick was suspended; a setter call in that interval
\* leaves the frame in flight as it is.
C18_NoRetroactiveFlags ==
    /\ [][TickResumes =>
            /\ sink'.width = canvasInput.width /\ sink'.height = canvasInput.height
            /\ \A i \in 1..Len(canvasInput.pixel) :
                  sink'.data[i] =
                    IF tick.cfg.redShiftEnabled /\ (i - 1) % 4 = 0 THEN 255
                    ELSE IF tick.cfg.blueShiftEnabled /\ (i - 1) % 4 = 2 THEN 255
                    ELSE canvasInput.pixel[i]]_vars
    /\ [][(tick.active /\ config' # config) => tick' = tick]_vars

\* C18 witness: a tick is suspended with a red-shifted frame in flight, and the
\* red shift has been switched off since apply was called.
C18_Witness ==
    /\ tick.active /\ tick.cfg.redShiftEnabled /\ tick.image.data[1] = 255
    /\ canvasInput.pixel[1] # 255
    /\ ~config[videoEffectDriver].redShiftEnabled

\* C19: a timer that fires while no input stream is bound starts a call of
\* process that returns at its guard: no frame is drawn or captured, no
\* transform is in flight, the output canvas is neither written nor resized, and
\* no timer is set in place of the one that fired.
C19_UnboundTickNoOp ==
    [][(inputVideoStream = NoStream /\ \E i \in 1..Len(timers) : TimerFires(i)) =>
        /\ UNCHANGED <<canvasInput, tick, sink, canvasOutput, videoInput, outputTracks>>
        /\ Len(timers') = Len(timers) - 1]_vars

\* C19 witness: the loop ran on "hd", the input was unbound, and the timer the
\* loop had left has fired: no timer and no tick remain.
C19_Witness ==
    /\ inputVideoStream = NoStream /\ canvasInput.width = 1280
    /\ lastTimeout = Gone /\ Len(timers) = 0 /\ ~tick.active
    /\ sink.width = 1280

\* C20: when no transformStream call is in progress and stop() has not been
\* called on the device since the last transformStream, the stream the device
\* has recorded is the stream its handler has bound.
C20_RecordedIsBound ==
    (Len(pending) = 0 /\ lifecycle # "stopped") => inputMediaStream = inputVideoStream

====
